---- MODULE Spec2Model ----
(***************************************************************************)
(* SnapPlanner (src/prpy/planning/snap.py): the straight-line "snap"       *)
(* planner.  One planning call is modelled step by step: the IK query and  *)
(* its diagnostic pass, the joint-limit checks, the construction of the    *)
(* one/two-waypoint trajectory, the scoped collision options, the sampling *)
(* loop and the tagging of the result.                                     *)
(*                                                                         *)
(* The robot has one active DOF.  A configuration is an integer number of  *)
(* units of numpy.allclose's absolute tolerance (1e-8).                    *)
(***************************************************************************)
EXTENDS Integers, Sequences, FiniteSets

\* ---- bounds of the model ------------------------------------------------
MaxQ == 4
MaxColl == 2
MaxIK == 2

\* ---- numpy.allclose defaults: atol = 1e-8 (one unit), rtol = 1e-5 --------
Atol == 1
RtolInv == 100000

Configs == 0..MaxQ

VARIABLES
    q0,            \* robot's active DOF values when the call is made
    q_limit_min,   \* robot.GetActiveDOFLimits()[0]
    q_limit_max,   \* robot.GetActiveDOFLimits()[1]
    envColl,       \* configurations where env.CheckCollision(robot) is true
    selfColl,      \* configurations where robot.CheckSelfCollision() is true
    q_resolution,  \* robot.GetDOFResolutions() of the active DOF
    options0,      \* collision checker options when the call is made
    pc,            \* position in the call
    method,        \* which planning method was called
    ik_solutions,  \* all kinematic IK solutions of the goal pose, in the
                   \* solver's enumeration order
    ik_solution,   \* result of FindIKSolution: <<>> is None, else <<q>>
    examined,      \* the solutions the diagnostic pass applied to the robot
    snapped,       \* the goals _Snap was called with
    goal,          \* _Snap's goal: <<>> before it is known, else <<q>>
    robotQ,        \* active DOF values of the (cloned) robot
    traj,          \* waypoints of the trajectory under construction
    checks,        \* configurations yielded by GetLinearCollisionCheckPts
    checked,       \* the samples applied to the robot and verified so far
    options,       \* current options of the collision checker
    saved,         \* options saved by CollisionOptionsStateSaver
    tags,          \* tags set on the trajectory
    result,        \* returned trajectory: <<>> is none, else <<traj>>
    error          \* raised exception

worldVars == <<q0, q_limit_min, q_limit_max, envColl, selfColl,
               q_resolution, options0>>
vars == <<q0, q_limit_min, q_limit_max, envColl, selfColl, q_resolution,
          options0, pc, method, ik_solutions, ik_solution, examined, snapped,
          goal, robotQ, traj, checks, checked, options, saved, tags, result,
          error>>

Abs(x) == IF x < 0 THEN -x ELSE x

\* ---- exceptions ----------------------------------------------------------
NoError == [kind |-> "none", deterministic |-> "None"]

PlanningError(k, det) == [kind |-> k, deterministic |-> det]

\* ---- collaborators -------------------------------------------------------

\* numpy.allclose(a, b): |a - b| <= atol + rtol * |b|
AllClose(a, b) == RtolInv * Abs(a - b) <= RtolInv * Atol + Abs(b)

\* prpy.util.CheckJointLimits(robot, q, deterministic=True)
CheckJointLimits(q) ==
    IF q < q_limit_min \/ q > q_limit_max
    THEN PlanningError("JointLimitError", "True")
    ELSE NoError

\* robot_checker.VerifyCollisionFree() with the robot at q
VerifyCollisionFree(q) ==
    IF q \in envColl THEN PlanningError("CollisionPlanningError", "True")
    ELSE IF q \in selfColl
         THEN PlanningError("SelfCollisionPlanningError", "True")
         ELSE NoError

\* The i-th Van der Corput number, as a numerator over 2^k (i < 2^k).
RECURSIVE VanDerCorputNumber(_, _)
VanDerCorputNumber(i, k) ==
    IF k = 0 THEN 0
    ELSE (i % 2) * (2 ^ (k - 1)) + VanDerCorputNumber(i \div 2, k - 1)

RECURSIVE BitsFor(_, _)
BitsFor(n, k) == IF 2 ^ k >= n THEN k ELSE BitsFor(n, k + 1)

RECURSIVE Contains(_, _)
Contains(s, x) ==
    IF s = <<>> THEN FALSE ELSE Head(s) = x \/ Contains(Tail(s), x)

\* The bins 1..nbins-1 in the order the Van der Corput sequence first
\* falls into them (bin 0, the start, is yielded up front).
RECURSIVE VdcBins(_, _, _, _)
VdcBins(i, k, nbins, acc) ==
    IF i >= 2 ^ k THEN acc
    ELSE LET idx == (VanDerCorputNumber(i, k) * nbins) \div (2 ^ k)
         IN  VdcBins(i + 1, k, nbins,
                     IF idx = 0 \/ Contains(acc, idx) THEN acc
                     ELSE Append(acc, idx))

\* VanDerCorputSampleGenerator(0, n / res, step=1): the start, the end, then
\* the remaining bins; here as the bin numbers of the interior samples.
VanDerCorputSampleGenerator(nbins) == VdcBins(1, BitsFor(nbins, 0), nbins, <<>>)

\* GetLinearCollisionCheckPts(robot, traj, norm_order=2, sampling_func=vdc):
\* the configurations to check, in order.
GetLinearCollisionCheckPts(wps, res) ==
    IF Len(wps) = 1 THEN <<wps[1]>>
    ELSE LET a == wps[1]
             b == wps[2]
             n == Abs(b - a)
             dir == IF b >= a THEN 1 ELSE -1
             nbins == (n + res - 1) \div res
             inner == VanDerCorputSampleGenerator(nbins)
         IN  <<a, b>> \o [i \in 1..Len(inner) |-> a + dir * inner[i] * res]

\* manipulator.FindIKSolution(ik_param, CheckEnvCollisions): the first
\* solution that is neither in environment nor in self collision.
RECURSIVE FirstFree(_)
FirstFree(sols) ==
    IF sols = <<>> THEN <<>>
    ELSE IF Head(sols) \notin envColl \cup selfColl THEN <<Head(sols)>>
         ELSE FirstFree(Tail(sols))

\* The solver may also reject every solution with a filter of its own.
FindIKSolution(sols) == {<<>>, FirstFree(sols)}

\* ---- pieces of the planner ----------------------------------------------

\* DiagnoseReport with the self-collision branch missing
DiagnoseReport_NoSelf(q) ==
    IF q \in envColl THEN PlanningError("CollisionPlanningError", "True")
    ELSE NoError

\* DiagnoseReport with deterministic left at FromReport's default
DiagnoseReport_NoFlag(q) ==
    IF q \in envColl THEN PlanningError("CollisionPlanningError", "None")
    ELSE IF q \in selfColl
         THEN PlanningError("SelfCollisionPlanningError", "None")
         ELSE NoError

\* DiagnoseReport with the two tests in the other order
DiagnoseReport_SelfFirst(q) ==
    IF q \in selfColl THEN PlanningError("SelfCollisionPlanningError", "True")
    ELSE IF q \in envColl
         THEN PlanningError("CollisionPlanningError", "True")
         ELSE NoError

\* lines 118-121: the report of one enumerated solution
DiagnoseReport(q) ==
    IF q \in envColl THEN PlanningError("CollisionPlanningError", "True")
    ELSE IF q \in selfColl
         THEN PlanningError("SelfCollisionPlanningError", "True")
         ELSE NoError

\* NoIKError raised as a collision
NoIKError_AsCollision == PlanningError("CollisionPlanningError", "True")

\* lines 123-124
NoIKError == PlanningError("PlanningError", "True")

\* Waypoints without the allclose test
Waypoints_Always2(start, g) == <<start, g>>

\* lines 146-161: the waypoints of the trajectory
Waypoints(start, g) == IF ~AllClose(start, g) THEN <<start, g>> ELSE <<start>>

\* TrajectoryTags without the endpoint tag
TrajectoryTags_NoEndpoint == {"SMOOTH", "DETERMINISTIC_TRAJECTORY"}

\* lines 195-199
TrajectoryTags == {"SMOOTH", "DETERMINISTIC_TRAJECTORY", "DETERMINISTIC_ENDPOINT"}

\* RestoredOptions when the options are set without a saver
RestoredOptions_Kept == options

\* CollisionOptionsStateSaver.__exit__: the options the scope leaves behind
RestoredOptions == saved

Raise(e) == /\ error' = e
            /\ pc' = "raised"

\* ---- initial state ----
\* The joint limits leave one configuration outside on either side.  Only
\* configurations within the limits are ever applied to the robot, so the
\* collision sets are drawn from those.
\* -------------------------------------------------------
Distinct(s) == \A i, j \in 1..Len(s) : i # j => s[i] # s[j]

SeqsUpTo(S, n) == UNION {[1..m -> S] : m \in 0..n}

Init ==
    /\ q0 \in Configs
    /\ q_limit_min = 1
    /\ q_limit_max = MaxQ - 1
    /\ envColl \in SUBSET (q_limit_min..q_limit_max)
    /\ selfColl \in SUBSET (q_limit_min..q_limit_max)
    /\ Cardinality(envColl \cup selfColl) <= MaxColl
    /\ q_resolution = 1
    /\ options0 \in {{}, {"Contacts"}}
    /\ pc = "idle"
    /\ method = "none"
    /\ ik_solutions = <<>>
    /\ ik_solution = <<>>
    /\ examined = <<>>
    /\ snapped = <<>>
    /\ goal = <<>>
    /\ robotQ = q0
    /\ traj = <<>>
    /\ checks = <<>>
    /\ checked = <<>>
    /\ options = options0
    /\ saved = {}
    /\ tags = {}
    /\ result = <<>>
    /\ error = NoError

\* ---- PlanToConfiguration (lines 64-74) ------------------------------------
PlanToConfiguration(g) ==
    /\ pc = "idle"
    /\ method' = "PlanToConfiguration"
    /\ goal' = <<g>>
    /\ snapped' = Append(snapped, g)
    /\ pc' = "snap_start"
    /\ UNCHANGED <<worldVars, ik_solutions, ik_solution, examined, robotQ,
                   traj, checks, checked, options, saved, tags, result, error>>

\* ---- PlanToEndEffectorPose (lines 77-126) ---------------------------------
\* The goal pose is given by its kinematic IK solutions.
PlanToEndEffectorPose(sols) ==
    /\ pc = "idle"
    /\ method' = "PlanToEndEffectorPose"
    /\ ik_solutions' = sols
    /\ pc' = "find_ik"
    /\ UNCHANGED <<worldVars, ik_solution, examined, snapped, goal, robotQ,
                   traj, checks, checked, options, saved, tags, result, error>>

\* lines 102-107 and 126
FindIK ==
    /\ pc = "find_ik"
    /\ \E r \in FindIKSolution(ik_solutions) :
         /\ ik_solution' = r
         /\ IF r = <<>>
            THEN /\ pc' = "diagnose"
                 /\ UNCHANGED <<goal, snapped>>
            ELSE /\ pc' = "snap_start"
                 /\ goal' = r
                 /\ snapped' = Append(snapped, r[1])
    /\ UNCHANGED <<worldVars, method, ik_solutions, examined, robotQ, traj,
                   checks, checked, options, saved, tags, result, error>>

\* DiagnoseSolution that snaps to a collision-free enumerated solution
DiagnoseSolution_Retry ==
    /\ pc = "diagnose"
    /\ Len(examined) < Len(ik_solutions)
    /\ LET q == ik_solutions[Len(examined) + 1]
       IN  /\ robotQ' = q
           /\ examined' = Append(examined, q)
           /\ IF DiagnoseReport(q) # NoError
              THEN /\ Raise(DiagnoseReport(q))
                   /\ UNCHANGED <<goal, snapped>>
              ELSE /\ goal' = <<q>>
                   /\ snapped' = Append(snapped, q)
                   /\ pc' = "snap_start"
                   /\ UNCHANGED error
    /\ UNCHANGED <<worldVars, method, ik_solutions, ik_solution, traj,
                   checks, checked, options, saved, tags, result>>

\* lines 115-121: one iteration of the loop over FindIKSolutions' result
DiagnoseSolution ==
    /\ pc = "diagnose"
    /\ Len(examined) < Len(ik_solutions)
    /\ LET q == ik_solutions[Len(examined) + 1]
       IN  /\ robotQ' = q
           /\ examined' = Append(examined, q)
           /\ IF DiagnoseReport(q) # NoError
              THEN Raise(DiagnoseReport(q))
              ELSE UNCHANGED <<pc, error>>
    /\ UNCHANGED <<worldVars, method, ik_solutions, ik_solution, snapped,
                   goal, traj, checks, checked, options, saved, tags, result>>

\* lines 123-124: the loop ended without raising
DiagnoseNoSolution ==
    /\ pc = "diagnose"
    /\ Len(examined) = Len(ik_solutions)
    /\ Raise(NoIKError)
    /\ UNCHANGED <<worldVars, method, ik_solutions, ik_solution, examined,
                   snapped, goal, robotQ, traj, checks, checked, options,
                   saved, tags, result>>

\* ---- _Snap (lines 128-201) -------------------------------------------------
\* lines 137-151: the start is checked against the limits and inserted
SnapStart ==
    /\ pc = "snap_start"
    /\ IF CheckJointLimits(robotQ) # NoError
       THEN /\ Raise(CheckJointLimits(robotQ))
            /\ UNCHANGED traj
       ELSE /\ traj' = <<robotQ>>
            /\ pc' = "snap_goal"
            /\ UNCHANGED error
    /\ UNCHANGED <<worldVars, method, ik_solutions, ik_solution, examined,
                   snapped, goal, robotQ, checks, checked, options, saved,
                   tags, result>>

\* SnapGoal without the joint-limit check of the goal
SnapGoal_NoLimit ==
    /\ pc = "snap_goal"
    /\ traj' = Waypoints(traj[1], goal[1])
    /\ checks' = GetLinearCollisionCheckPts(traj', q_resolution)
    /\ pc' = "enter_scope"
    /\ UNCHANGED <<worldVars, method, ik_solutions, ik_solution, examined,
                   snapped, goal, robotQ, checked, options, saved, tags,
                   result, error>>

\* lines 156-178: the goal is checked against the limits and inserted
\* unless it is close to the start; the check points are laid out
SnapGoal ==
    /\ pc = "snap_goal"
    /\ IF CheckJointLimits(goal[1]) # NoError
       THEN /\ Raise(CheckJointLimits(goal[1]))
            /\ UNCHANGED <<traj, checks>>
       ELSE /\ traj' = Waypoints(traj[1], goal[1])
            /\ checks' = GetLinearCollisionCheckPts(traj', q_resolution)
            /\ pc' = "enter_scope"
            /\ UNCHANGED error
    /\ UNCHANGED <<worldVars, method, ik_solutions, ik_solution, examined,
                   snapped, goal, robotQ, checked, options, saved, tags,
                   result>>

\* lines 180-181: CollisionOptionsStateSaver.__enter__
EnterScope ==
    /\ pc = "enter_scope"
    /\ saved' = options
    /\ options' = {"ActiveDOFs"}
    /\ pc' = "make_checker"
    /\ UNCHANGED <<worldVars, method, ik_solutions, ik_solution, examined,
                   snapped, goal, robotQ, traj, checks, checked, tags,
                   result, error>>

\* line 184: the robot checker is constructed
MakeChecker ==
    /\ pc = "make_checker"
    /\ pc' = "loop"
    /\ UNCHANGED <<worldVars, method, ik_solutions, ik_solution, examined,
                   snapped, goal, robotQ, traj, checks, checked, options,
                   saved, tags, result, error>>

\* line 184: the constructor of the robot checker raises; the exception
\* leaves the with block
MakeCheckerFails ==
    /\ pc = "make_checker"
    /\ Raise([kind |-> "CheckerError", deterministic |-> "None"])
    /\ options' = RestoredOptions
    /\ UNCHANGED <<worldVars, method, ik_solutions, ik_solution, examined,
                   snapped, goal, robotQ, traj, checks, checked, saved, tags,
                   result>>

\* CheckSample without robot.SetActiveDOFValues(q)
CheckSample_Stale ==
    /\ pc = "loop"
    /\ Len(checked) < Len(checks)
    /\ LET q == checks[Len(checked) + 1]
       IN  /\ checked' = Append(checked, q)
           /\ IF VerifyCollisionFree(robotQ) # NoError
              THEN /\ Raise(VerifyCollisionFree(robotQ))
                   /\ options' = RestoredOptions
              ELSE UNCHANGED <<pc, error, options>>
    /\ UNCHANGED <<worldVars, method, ik_solutions, ik_solution, examined,
                   snapped, goal, robotQ, traj, checks, saved, tags, result>>

\* lines 187-193: one iteration of the check loop; an exception leaves the
\* with block
CheckSample ==
    /\ pc = "loop"
    /\ Len(checked) < Len(checks)
    /\ LET q == checks[Len(checked) + 1]
       IN  /\ robotQ' = q
           /\ checked' = Append(checked, q)
           /\ IF VerifyCollisionFree(robotQ') # NoError
              THEN /\ Raise(VerifyCollisionFree(robotQ'))
                   /\ options' = RestoredOptions
              ELSE UNCHANGED <<pc, error, options>>
    /\ UNCHANGED <<worldVars, method, ik_solutions, ik_solution, examined,
                   snapped, goal, traj, checks, saved, tags, result>>

\* the check loop ends and the with block is left normally
ExitScope ==
    /\ pc = "loop"
    /\ Len(checked) = Len(checks)
    /\ options' = RestoredOptions
    /\ pc' = "tag"
    /\ UNCHANGED <<worldVars, method, ik_solutions, ik_solution, examined,
                   snapped, goal, robotQ, traj, checks, checked, saved, tags,
                   result, error>>

\* lines 195-201
TagAndReturn ==
    /\ pc = "tag"
    /\ tags' = tags \cup TrajectoryTags
    /\ result' = <<traj>>
    /\ pc' = "returned"
    /\ UNCHANGED <<worldVars, method, ik_solutions, ik_solution, examined,
                   snapped, goal, robotQ, traj, checks, checked, options,
                   saved, error>>

\* The IK solver keeps its solutions within the joint limits.
Poses == {s \in SeqsUpTo(q_limit_min..q_limit_max, MaxIK) : Distinct(s)}

Next ==
    \/ \E g \in Configs : PlanToConfiguration(g)
    \/ \E sols \in Poses : PlanToEndEffectorPose(sols)
    \/ FindIK
    \/ DiagnoseSolution
    \/ DiagnoseNoSolution
    \/ SnapStart
    \/ SnapGoal
    \/ EnterScope
    \/ MakeChecker
    \/ MakeCheckerFails
    \/ CheckSample
    \/ ExitScope
    \/ TagAndReturn

Spec == Init /\ [][Next]_vars

\* ---- vocabulary of the properties ----------------------------------------
Returned == pc = "returned"
Raised == pc = "raised"
Free(q) == q \notin envColl /\ q \notin selfColl
Range(s) == {s[i] : i \in 1..Len(s)}
IsPrefix(s, t) == Len(s) <= Len(t) /\ \A i \in 1..Len(s) : s[i] = t[i]
InScope == pc \in {"make_checker", "loop"}
CollisionKinds == {"CollisionPlanningError", "SelfCollisionPlanningError"}
ViolatesLimits(q) == q < q_limit_min \/ q > q_limit_max
ByConfiguration == method = "PlanToConfiguration"
ByPose == method = "PlanToEndEffectorPose"
\* the diagnostic pass of PlanToEndEffectorPose is running or has raised
Diagnosing == ByPose /\ pc \in {"diagnose", "raised"} /\ ik_solution = <<>>
\* index of the first enumerated solution in any collision, 0 if none
RECURSIVE FirstColliding(_, _)
FirstColliding(sols, i) ==
    IF i > Len(sols) THEN 0
    ELSE IF ~Free(sols[i]) THEN i ELSE FirstColliding(sols, i + 1)

\* C1: PlanToConfiguration returns a trajectory only if every sample of the
\* line from start to goal (its waypoints among them) was applied to the
\* robot and found collision-free; the samples are checked in order, a
\* colliding sample is the last one checked, and the call then has raised a
\* collision failure and returns no trajectory.
C1_SnapChecksEverySample ==
    ByConfiguration =>
      /\ IsPrefix(checked, checks)
      /\ result # <<>> =>
           /\ checked = checks
           /\ Range(result[1]) \subseteq Range(checks)
           /\ \A q \in Range(checks) : Free(q)
      /\ \A i \in 1..Len(checked) :
           ~Free(checked[i]) =>
             /\ i = Len(checked)
             /\ robotQ = checked[i]
             /\ Raised
             /\ error.kind \in CollisionKinds
             /\ result = <<>>

\* C1 witness: the goal, sampled second, collides; the interior sample is
\* never checked.
C1_Witness ==
    /\ ByConfiguration
    /\ Raised
    /\ error.kind = "CollisionPlanningError"
    /\ Len(checks) = 3
    /\ checked = <<q0, goal[1]>>
    /\ result = <<>>

\* C2: a returned trajectory has exactly one waypoint, the start, when the
\* goal is within tolerance of the start, and otherwise exactly two, the
\* start at index 0 and the goal at index 1.
C2_WaypointCount ==
    Returned =>
      result[1] = IF AllClose(q0, goal[1]) THEN <<q0>> ELSE <<q0, goal[1]>>

\* C2 witness: a goal that differs from the start but is within tolerance.
C2_Witness ==
    /\ Returned
    /\ goal[1] # q0
    /\ AllClose(q0, goal[1])
    /\ result = << <<q0>> >>

\* C3: when the goal of PlanToConfiguration violates the joint limits, the
\* collision-option scope is never entered, no configuration is verified,
\* and the call ends in JointLimitError.
C3_JointLimitsBeforeCollision ==
    (ByConfiguration /\ ViolatesLimits(goal[1])) =>
      /\ pc \in {"snap_start", "snap_goal", "raised"}
      /\ checked = <<>>
      /\ options = options0
      /\ robotQ = q0
      /\ result = <<>>
      /\ Raised => error = PlanningError("JointLimitError", "True")

\* C3 witness: the start is within the limits, the goal is outside them and
\* within tolerance of the start.
C3_Witness ==
    /\ ByConfiguration
    /\ Raised
    /\ ~ViolatesLimits(q0)
    /\ ViolatesLimits(goal[1])
    /\ AllClose(q0, goal[1])
    /\ error.kind = "JointLimitError"

\* C4 as stated: when every IK solution of the pose is in self-collision,
\* PlanToEndEffectorPose fails with SelfCollisionPlanningError.
C4_Original ==
    (ByPose /\ Raised /\ ik_solutions # <<>>
       /\ \A q \in Range(ik_solutions) : q \in selfColl)
      => error.kind = "SelfCollisionPlanningError"

\* C4 as amended: when every IK solution of the pose is in self-collision
\* and none of them is in environment collision, PlanToEndEffectorPose
\* never snaps and fails with SelfCollisionPlanningError.
C4_SelfCollisionOnly ==
    (ByPose /\ ik_solutions # <<>>
       /\ \A q \in Range(ik_solutions) : q \in selfColl /\ q \notin envColl)
      => /\ snapped = <<>>
         /\ result = <<>>
         /\ pc \in {"find_ik", "diagnose", "raised"}
         /\ Raised => error = PlanningError("SelfCollisionPlanningError", "True")

\* C4 witness: two solutions, both in self-collision only.
C4_Witness ==
    /\ ByPose
    /\ Raised
    /\ Len(ik_solutions) = 2
    /\ \A q \in Range(ik_solutions) : q \in selfColl /\ q \notin envColl
    /\ error.kind = "SelfCollisionPlanningError"

\* C5: when the pose has no IK solution at all, PlanToEndEffectorPose builds
\* no trajectory and fails with the plain PlanningError, which is none of
\* the collision, self-collision and joint-limit kinds.
C5_NoIKSolution ==
    (ByPose /\ ik_solutions = <<>>) =>
      /\ traj = <<>>
      /\ snapped = <<>>
      /\ result = <<>>
      /\ pc \in {"find_ik", "diagnose", "raised"}
      /\ Raised =>
           /\ error = PlanningError("PlanningError", "True")
           /\ error.kind \notin CollisionKinds \cup {"JointLimitError"}

\* C5 witness
C5_Witness ==
    /\ ByPose
    /\ Raised
    /\ ik_solutions = <<>>
    /\ examined = <<>>
    /\ error.kind = "PlanningError"

C7_OptionsRestored ==
    /\ InScope => (options = {"ActiveDOFs"} /\ saved = options0)
    /\ ~InScope => options = options0

\* C7 witness: the scope was left by a collision in the loop.
C7_Witness ==
    /\ Raised
    /\ checked # <<>>
    /\ error.kind \in CollisionKinds
    /\ options0 = {"Contacts"}
    /\ options = {"Contacts"}

\* C8: a returned trajectory carries the three tags and was returned after
\* the whole check loop; until then, and in every failure, no tag is set and
\* no trajectory is returned.
C8_TagsOnSuccessOnly ==
    /\ Returned =>
         /\ tags = {"SMOOTH", "DETERMINISTIC_TRAJECTORY", "DETERMINISTIC_ENDPOINT"}
         /\ result = <<traj>>
         /\ checked = checks
         /\ error = NoError
    /\ ~Returned => (tags = {} /\ result = <<>>)

\* C8 witness: a two-waypoint trajectory is returned.
C8_Witness ==
    /\ Returned
    /\ Len(traj) = 2
    /\ Len(checks) = 3
    /\ Cardinality(tags) = 3

\* C9: PlanToEndEffectorPose snaps at most once, to the solution of the
\* first IK query, and returns a trajectory only then; when the first query
\* returned none it never snaps and never returns.
C9_SingleSnap ==
    ByPose =>
      /\ Len(snapped) <= 1
      /\ snapped = ik_solution
      /\ goal = ik_solution
      /\ (pc # "find_ik" /\ ik_solution = <<>>) =>
           (pc \in {"diagnose", "raised"} /\ result = <<>> /\ traj = <<>>)
      /\ Returned => (ik_solution # <<>> /\ result = <<traj>>
                        /\ traj[Len(traj)] \in {q0, ik_solution[1]})

\* C9 witness: the first query returned none, the enumeration yields two
\* collision-free solutions, and the call has failed.
C9_Witness ==
    /\ ByPose
    /\ Raised
    /\ ik_solution = <<>>
    /\ Len(ik_solutions) = 2
    /\ \A q \in Range(ik_solutions) : Free(q)
    /\ examined = ik_solutions

\* C10: in the diagnostic pass the solutions are examined in enumeration
\* order up to the first one in any collision; that one decides the error,
\* environment collision before self-collision; the no-IK-solution failure
\* is raised only when no enumerated solution collides.
C10_FirstCollidingDecides ==
    Diagnosing =>
      LET k == FirstColliding(ik_solutions, 1)
      IN  /\ IsPrefix(examined, ik_solutions)
          /\ k # 0 => Len(examined) <= k
          /\ ~Raised => \A q \in Range(examined) : Free(q)
          /\ Raised =>
               IF k = 0
               THEN /\ examined = ik_solutions
                    /\ error.kind = "PlanningError"
               ELSE /\ Len(examined) = k
                    /\ robotQ = ik_solutions[k]
                    /\ error.kind = IF ik_solutions[k] \in envColl
                                    THEN "CollisionPlanningError"
                                    ELSE "SelfCollisionPlanningError"

\* C10 witness: the first of two solutions is in both kinds of collision;
\* the second is never examined.
C10_Witness ==
    /\ Diagnosing
    /\ Raised
    /\ Len(ik_solutions) = 2
    /\ ik_solutions[1] \in envColl \cap selfColl
    /\ examined = <<ik_solutions[1]>>
    /\ error.kind = "CollisionPlanningError"
====
